---- MODULE Spec2Model ----
(***************************************************************************)
(* Sci-Hub PDF Downloader browser extension.                               *)
(*                                                                         *)
(* Content script (src/unnamed/part_000): DOI detection on the page, the   *)
(* injected button, the download request.                                  *)
(* Background worker: the mirror loop, the PDF reference scan and the      *)
(* download.  Two builds of the worker exist in the repository:            *)
(*   "regex"  src/unnamed/part_002  (regex scan, URL handed to downloads)  *)
(*   "dom"    src/background.js     (DOMParser scan, blob validation)      *)
(*                                                                         *)
(* JavaScript strings are modelled as sequences of one-character strings,  *)
(* so that includes/startsWith/replace and the regular expressions are     *)
(* computed character by character.                                        *)
(***************************************************************************)
EXTENDS Integers, Sequences, FiniteSets, TLC

\* ------------------------------------------------------------------------
\* JavaScript values and string primitives
\* ------------------------------------------------------------------------

\* JS null / undefined (no string equals it: strings hold single characters)
Null == <<"null">>

\* JS falsiness of a string-or-null value: null, undefined and "" are falsy
Falsy(v) == v = Null \/ v = <<>>

MinOf(S) == CHOOSE x \in S : \A y \in S : x <= y
MaxOf(S) == CHOOSE x \in S : \A y \in S : x >= y

\* A string is a sequence of characters, each written as a one-character
\* string. A character outside ASCII is written by the name of its code
\* point: "U+2028" is one character, and <<"a", "U+2028">> is a string of two.

\* line terminators: the characters "." does not match
LineTerminator == {"\n", "\r", "U+2028", "U+2029"}
\* the regular-expression class \s, which is also what String.prototype.trim
\* removes: tab, vertical tab, form feed, space, no-break space, U+1680,
\* U+2000 to U+200A, U+202F, U+205F, U+3000, the byte order mark, and the
\* line terminators
WhiteSpace ==
  {" ", "\t", "\f", "", "U+00A0", "U+1680", "U+FEFF",
   "U+2000", "U+2001", "U+2002", "U+2003", "U+2004", "U+2005", "U+2006",
   "U+2007", "U+2008", "U+2009", "U+200A", "U+202F", "U+205F", "U+3000"}
  \cup LineTerminator
\* the two quote characters of the class ["']
Quotes == {"\"", "'"}
\* the regular-expression class \d
Digit == {"0", "1", "2", "3", "4", "5", "6", "7", "8", "9"}
LowerLetters == <<"a","b","c","d","e","f","g","h","i","j","k","l","m","n","o","p","q","r","s","t","u","v","w","x","y","z">>
UpperLetters == <<"A","B","C","D","E","F","G","H","I","J","K","L","M","N","O","P","Q","R","S","T","U","V","W","X","Y","Z">>
Letter == {LowerLetters[k] : k \in 1..26} \cup {UpperLetters[k] : k \in 1..26}
\* the regular-expression class \w
WordChar == Letter \cup Digit \cup {"_"}

\* case folding of the /i flag
Lower(c) ==
  IF \E k \in 1..26 : UpperLetters[k] = c
    THEN LowerLetters[CHOOSE k \in 1..26 : UpperLetters[k] = c]
    ELSE c
LowerStr(s) == [k \in 1..Len(s) |-> Lower(s[k])]

\* p occurs in s at index i (1-based)
IsPrefixAt(s, i, p) ==
  /\ i >= 1
  /\ i + Len(p) - 1 <= Len(s)
  /\ \A k \in 1..Len(p) : s[i + k - 1] = p[k]
\* the same under the /i flag (p is given in lower case)
IsPrefixAtI(s, i, p) ==
  /\ i >= 1
  /\ i + Len(p) - 1 <= Len(s)
  /\ \A k \in 1..Len(p) : Lower(s[i + k - 1]) = p[k]

\* String.prototype.includes
Includes(s, p) == \E i \in 1..(Len(s) - Len(p) + 1) : IsPrefixAt(s, i, p)
\* String.prototype.startsWith
StartsWith(s, p) == IsPrefixAt(s, 1, p)

\* s from index i to its end
From(s, i) == SubSeq(s, i, Len(s))

\* the first element of `results` that is not Null, Null when there is none
FirstHit(results) ==
  LET hits == {k \in DOMAIN results : results[k] # Null}
  IN  IF hits = {} THEN Null ELSE results[MinOf(hits)]

\* end index of the longest run of characters outside Excl that starts at i
\* (i - 1 when the run is empty)
RunEnd(s, i, Excl) == MinOf({k \in i..Len(s) : s[k] \in Excl} \cup {Len(s) + 1}) - 1

\* end index of the longest run of characters of In that starts at i
SpanEnd(s, i, In) == MinOf({k \in i..Len(s) : s[k] \notin In} \cup {Len(s) + 1}) - 1

\* index after the white space that starts at i: the match of \s*
SkipWs(s, i) == SpanEnd(s, i, WhiteSpace) + 1

\* index after the character at i when it is one of Set, 0 otherwise
Expect(s, i, Set) == IF i >= 1 /\ i <= Len(s) /\ s[i] \in Set THEN i + 1 ELSE 0

\* String.prototype.trim
Trim(s) ==
  LET idx == {k \in 1..Len(s) : s[k] \notin WhiteSpace}
  IN  IF idx = {} THEN <<>> ELSE SubSeq(s, MinOf(idx), MaxOf(idx))

\* s.replace(/p/g, r) for a literal pattern p
RECURSIVE ReplaceAllFrom(_, _, _, _)
ReplaceAllFrom(s, i, p, r) ==
  IF i > Len(s) THEN <<>>
  ELSE IF IsPrefixAt(s, i, p) THEN r \o ReplaceAllFrom(s, i + Len(p), p, r)
  ELSE <<s[i]>> \o ReplaceAllFrom(s, i + 1, p, r)
ReplaceAll(s, p, r) == ReplaceAllFrom(s, 1, p, r)

\* url.replace(/#.*$/, ""): cut at the first "#" that no line terminator follows
StripFragment(s) ==
  SubSeq(s, 1, MinOf({k \in 1..Len(s) :
                        /\ s[k] = "#"
                        /\ \A j \in (k + 1)..Len(s) : s[j] \notin LineTerminator}
                     \cup {Len(s) + 1}) - 1)

\* ------------------------------------------------------------------------
\* Background worker: configuration
\* ------------------------------------------------------------------------

\* Sci-Hub mirrors in priority order
SCIHUB_MIRRORS == <<
  <<"h","t","t","p","s",":","/","/","s","c","i","-","h","u","b",".","v","g">>,
  <<"h","t","t","p","s",":","/","/","s","c","i","-","h","u","b",".","a","l">>,
  <<"h","t","t","p","s",":","/","/","s","c","i","-","h","u","b",".","m","k">>,
  <<"h","t","t","p","s",":","/","/","s","c","i","-","h","u","b",".","r","u">> >>

\* the two builds of the background worker
Variants == {"regex", "dom"}

\* ------------------------------------------------------------------------
\* normalizeUrl
\* ------------------------------------------------------------------------

\* the four-way prefix resolution shared by both builds
ResolveAgainst(url, mirror) ==
  IF StartsWith(url, <<"/","/">>) THEN <<"h","t","t","p","s",":">> \o url
  ELSE IF StartsWith(url, <<"/">>) THEN mirror \o url
  ELSE IF StartsWith(url, <<"h","t","t","p">>) THEN url
  ELSE mirror \o <<"/">> \o url

\* normalizeUrl of the regex build: trim, decode &amp;, strip the fragment
normalizeUrl(url, mirror) ==
  IF Falsy(url) THEN Null
  ELSE ResolveAgainst(StripFragment(ReplaceAll(Trim(url), <<"&","a","m","p",";">>, <<"&">>)), mirror)

\* normalizeUrl of the dom build: trim, strip the fragment
normalizeUrlDom(url, mirror) ==
  IF Falsy(url) THEN Null
  ELSE ResolveAgainst(StripFragment(Trim(url)), mirror)

\* ------------------------------------------------------------------------
\* findPDFUrl, regex build: the matchers
\* ------------------------------------------------------------------------

ApplicationPdf == <<"a","p","p","l","i","c","a","t","i","o","n","/","p","d","f">>
DotPdf == <<".","p","d","f">>

\* result of one matcher: the capture and the index after the match
NoMatch == [ok |-> FALSE, cap |-> Null, next |-> 0]

\* the first successful element of `results`, NoMatch when there is none
FirstOk(results) ==
  LET hits == {k \in DOMAIN results : results[k].ok}
  IN  IF hits = {} THEN NoMatch ELSE results[MinOf(hits)]

\* \s*=\s*["'] matched at index a: the index after the quote, 0 for no match
AfterEqQuote(s, a) ==
  LET quote(b) == IF b = 0 THEN 0 ELSE Expect(s, SkipWs(s, b), Quotes)
  IN  quote(Expect(s, SkipWs(s, a), {"="}))

\* ([^"']+)["'] matched at index c (0: what precedes it did not match)
QuotedRun(s, c) ==
  LET upTo(e) == IF e >= c /\ e + 1 <= Len(s)
                   THEN [ok |-> TRUE, cap |-> SubSeq(s, c, e), next |-> e + 2]
                   ELSE NoMatch
  IN  IF c = 0 THEN NoMatch ELSE upTo(RunEnd(s, c, Quotes))

\* NAME\s*=\s*["']([^"']+)["'] matched at index q, under the /i flag
AttrAt(s, q, name) ==
  IF IsPrefixAtI(s, q, name) THEN QuotedRun(s, AfterEqQuote(s, q + Len(name))) ELSE NoMatch

\* type\s*=\s*["']application\/pdf["'] matched at index q (/i): the index
\* after the match, 0 when there is none
TypePdfAt(s, q) ==
  LET value(c) == IF c # 0 /\ IsPrefixAtI(s, c, ApplicationPdf)
                    THEN Expect(s, c + Len(ApplicationPdf), Quotes)
                    ELSE 0
  IN  IF IsPrefixAtI(s, q, <<"t","y","p","e">>) THEN value(AfterEqQuote(s, q + 4)) ELSE 0

\* [^>]+NAME\s*=\s*["']([^"']+)["'] where the greedy [^>]+ may end before any
\* index of lo..hi: backtracking tries hi first
GreedyAttr(s, lo, hi, name) ==
  FirstOk([j \in 1..(hi - lo + 1) |-> AttrAt(s, hi + 1 - j, name)])

\* <TAG[^>]+NAME\s*=\s*["']([^"']+)["'] at start index p: the greedy [^>]+
\* gives the last NAME attribute before the first ">"
TagAttrAt(s, p, tag, name) ==
  IF IsPrefixAtI(s, p, tag)
    THEN GreedyAttr(s, p + Len(tag) + 1, RunEnd(s, p + Len(tag), {">"}) + 1, name)
    ELSE NoMatch

\* the leftmost match of the same expression at or after index `from`
TagAttrMatch(s, from, tag, name) ==
  FirstOk([j \in 1..(Len(s) - from + 1) |-> TagAttrAt(s, from + j - 1, tag, name)])

\* <embed[^>]+type="application/pdf"[^>]+src="(...)" at start index p
EmbedTypeSrcAt(s, p) ==
  LET src(r) == IF r = 0 THEN NoMatch
                ELSE GreedyAttr(s, r + 1, RunEnd(s, r, {">"}) + 1, <<"s","r","c">>)
      upTo(hi) == FirstOk([j \in 1..(hi - p - 6) |-> src(TypePdfAt(s, hi + 1 - j))])
  IN  IF IsPrefixAtI(s, p, <<"<","e","m","b","e","d">>) THEN upTo(RunEnd(s, p + 6, {">"}) + 1) ELSE NoMatch
embedPdfMatch(s) == FirstOk([p \in 1..Len(s) |-> EmbedTypeSrcAt(s, p)])

\* <embed[^>]+src="(...)"[^>]+type="application/pdf" at start index p
EmbedSrcTypeAt(s, p) ==
  LET typed(m) ==
        IF m.ok /\ \E q \in (m.next + 1)..(RunEnd(s, m.next, {">"}) + 1) : TypePdfAt(s, q) # 0
          THEN m ELSE NoMatch
      upTo(hi) == FirstOk([j \in 1..(hi - p - 6) |-> typed(AttrAt(s, hi + 1 - j, <<"s","r","c">>))])
  IN  IF IsPrefixAtI(s, p, <<"<","e","m","b","e","d">>) THEN upTo(RunEnd(s, p + 6, {">"}) + 1) ELSE NoMatch
embedPdfMatch2(s) == FirstOk([p \in 1..Len(s) |-> EmbedSrcTypeAt(s, p)])

\* needle occurs in s[lo..hi] at an index that leaves at least one character
\* of the run before it: the shape  X+ needle X*  over a run of X
HasInnerAt(s, lo, hi, needle) ==
  \E k \in (lo + 1)..(hi - Len(needle) + 1) : IsPrefixAtI(s, k, needle)
HasInnerAtCS(s, lo, hi, needle) ==
  \E k \in (lo + 1)..(hi - Len(needle) + 1) : IsPrefixAt(s, k, needle)

\* onclick.match(/location\.href\s*=\s*['"]([^'"]+\.pdf[^'"]*)/): the capture
LocHrefAt(t, p) ==
  LET upTo(c, e) == IF HasInnerAtCS(t, c, e, DotPdf) THEN SubSeq(t, c, e) ELSE Null
      quoted(c) == IF c = 0 THEN Null ELSE upTo(c, RunEnd(t, c, Quotes))
  IN  IF IsPrefixAt(t, p, <<"l","o","c","a","t","i","o","n",".","h","r","e","f">>) THEN quoted(AfterEqQuote(t, p + 13)) ELSE Null
locMatch(t) == FirstHit([p \in 1..Len(t) |-> LocHrefAt(t, p)])

\* https?:\/\/ matched at index p: its length, 0 for no match
SchemeLen(t, p) ==
  IF IsPrefixAt(t, p, <<"h","t","t","p","s",":","/","/">>) THEN 8
  ELSE IF IsPrefixAt(t, p, <<"h","t","t","p",":","/","/">>) THEN 7 ELSE 0

\* txt.match(/(https?:\/\/[^\s"<>']+\.pdf[^\s"<>']*)/): the capture
UrlStop == WhiteSpace \cup {"\"", "<", ">", "'"}
PdfUrlAt(t, p) ==
  LET upTo(l0, e) == IF HasInnerAtCS(t, p + l0, e, DotPdf) THEN SubSeq(t, p, e) ELSE Null
      rest(l0) == IF l0 = 0 THEN Null ELSE upTo(l0, RunEnd(t, p + l0, UrlStop))
  IN  rest(SchemeLen(t, p))
pdfMatch(t) == FirstHit([p \in 1..Len(t) |-> PdfUrlAt(t, p)])

\* html.matchAll(/<button[^>]+onclick\s*=\s*["']([^"']+)["']/gi): the first
\* button whose handler assigns a .pdf address to location.href, with the
\* escaped slashes of that address unescaped; Null when there is none
RECURSIVE ButtonScan(_, _)
ButtonScan(s, from) ==
  LET loc(bm, l) == IF l # Null THEN ReplaceAll(l, <<"\\","/">>, <<"/">>)
                    ELSE ButtonScan(s, bm.next)
      step(bm) == IF bm.ok THEN loc(bm, locMatch(bm.cap)) ELSE Null
  IN  step(TagAttrMatch(s, from, <<"<","b","u","t","t","o","n">>, <<"o","n","c","l","i","c","k">>))

\* /<script[^>]*>([\s\S]*?)<\/script>/gi matched at start index p
ScriptAt(s, p) ==
  LET close(e, k) == IF e + 1 <= Len(s) /\ k <= Len(s)
                       THEN [ok |-> TRUE, cap |-> SubSeq(s, e + 2, k - 1), next |-> k + 9]
                       ELSE NoMatch
      open(e) == close(e, MinOf({k \in (e + 2)..Len(s) : IsPrefixAtI(s, k, <<"<","/","s","c","r","i","p","t",">">>)}
                                \cup {Len(s) + 1}))
  IN  IF IsPrefixAtI(s, p, <<"<","s","c","r","i","p","t">>) THEN open(RunEnd(s, p + 7, {">"})) ELSE NoMatch

\* the first script text that holds an absolute .pdf URL gives that URL
RECURSIVE ScriptScan(_, _)
ScriptScan(s, from) ==
  LET hit(sm, u) == IF u # Null THEN u ELSE ScriptScan(s, sm.next)
      step(sm) == IF sm.ok THEN hit(sm, pdfMatch(sm.cap)) ELSE Null
  IN  step(FirstOk([j \in 1..(Len(s) - from + 1) |-> ScriptAt(s, from + j - 1)]))

\* /(?:src|href|data)\s*=\s*["']((?:https?:)?\/\/[^"']+\.pdf[^"']*)/i at index p
AnyPdfAt(s, p) ==
  LET upTo(c, l0, e) == IF HasInnerAt(s, c + l0, e, DotPdf) THEN SubSeq(s, c, e) ELSE Null
      scheme(c, l0) == IF l0 = 0 THEN Null ELSE upTo(c, l0, RunEnd(s, c, Quotes))
      value(c) == IF c = 0 THEN Null
                  ELSE scheme(c, IF IsPrefixAtI(s, c, <<"h","t","t","p","s",":","/","/">>) THEN 8
                                 ELSE IF IsPrefixAtI(s, c, <<"h","t","t","p",":","/","/">>) THEN 7
                                 ELSE IF IsPrefixAtI(s, c, <<"/","/">>) THEN 2 ELSE 0)
      attr(n) == IF n = 0 THEN Null ELSE value(AfterEqQuote(s, p + n))
  IN  attr(IF IsPrefixAtI(s, p, <<"s","r","c">>) THEN 3
           ELSE IF IsPrefixAtI(s, p, <<"h","r","e","f">>) \/ IsPrefixAtI(s, p, <<"d","a","t","a">>) THEN 4
           ELSE 0)
anyPdfMatch(s) == FirstHit([p \in 1..Len(s) |-> AnyPdfAt(s, p)])

\* ------------------------------------------------------------------------
\* findPDFUrl
\* ------------------------------------------------------------------------

\* what an awaited call gives: a value, or an exception with its message
Returns(v) == [threw |-> FALSE, val |-> v, msg |-> Null]
Throws(m) == [threw |-> TRUE, val |-> Null, msg |-> m]

CloudflareChallenge == <<"C","l","o","u","d","f","l","a","r","e"," ","c","h","a","l","l","e","n","g","e">>

\* res.headers.get("Content-Type") || ""
ContentTypeOf(res) == IF Falsy(res.contentType) THEN <<>> ELSE res.contentType

\* html.includes("Just a moment") && html.includes("cf_chl")
IsChallenge(html) ==
  Includes(html, <<"J","u","s","t"," ","a"," ","m","o","m","e","n","t">>) /\ Includes(html, <<"c","f","_","c","h","l">>)

\* dataUrl looks like a file path
LooksLikePdfPath(dataUrl) ==
  \/ Includes(dataUrl, DotPdf)
  \/ Includes(dataUrl, <<"/","p","d","f","/">>)
  \/ Includes(dataUrl, <<"/","s","t","o","r","a","g","e","/">>)

\* the value of the first step of the scan whose `if` is taken, Null when
\* the scan falls off its end
FirstTaken(steps) ==
  LET taken == {k \in DOMAIN steps : steps[k].taken}
  IN  IF taken = {} THEN Null ELSE steps[MinOf(taken)].val

\* the scan of the body, regex build, in priority order
ScanHtml(html, mirror) ==
  LET attr(m) == [taken |-> m.ok, val |-> normalizeUrl(m.cap, mirror)]
      path(m) == [taken |-> m.ok /\ LooksLikePdfPath(m.cap), val |-> normalizeUrl(m.cap, mirror)]
      rel(u) == [taken |-> u # Null, val |-> normalizeUrl(u, mirror)]
      abs(u) == [taken |-> u # Null, val |-> u]
  IN  FirstTaken(<<
        attr(TagAttrMatch(html, 1, <<"<","i","f","r","a","m","e">>, <<"s","r","c">>)),
        attr(embedPdfMatch(html)),
        attr(embedPdfMatch2(html)),
        attr(TagAttrMatch(html, 1, <<"<","e","m","b","e","d">>, <<"s","r","c">>)),
        path(TagAttrMatch(html, 1, <<"<","o","b","j","e","c","t">>, <<"d","a","t","a">>)),
        rel(ButtonScan(html, 1)),
        abs(ScriptScan(html, 1)),
        rel(anyPdfMatch(html)) >>)

\* findPDFUrl of the regex build, given what fetch(mirror + "/" + doi) and
\* res.text() give: res.kind is "neterr" when fetch rejects, "readerr" when
\* res.text() rejects, "ok" otherwise
findPDFUrl(mirror, res) ==
  IF res.kind = "neterr" THEN Throws(res.msg)
  ELSE IF Includes(ContentTypeOf(res), ApplicationPdf) THEN Returns(res.url)
  ELSE IF res.kind = "readerr" THEN Throws(res.msg)
  ELSE IF IsChallenge(res.html) THEN Throws(CloudflareChallenge)
  ELSE Returns(ScanHtml(res.html, mirror))

\* ---- dom build: the body as DOMParser gives it, a sequence of elements in
\* document order, each [tag, src, type, data, onclick, text] with Null for
\* an attribute the element does not carry

\* doc.querySelector: the first element that matches, NoEl when none does
NoEl == [tag |-> "", src |-> Null, type |-> Null, data |-> Null, onclick |-> Null, text |-> <<>>]
\* `matching` holds the indices of the elements the selector matches
querySelector(dom, matching) ==
  IF matching = {} THEN NoEl ELSE dom[MinOf(matching)]

IsIframeSrc(el) == el.tag = "iframe" /\ el.src # Null
\* embed[type="application/pdf"][src]: HTML compares type values without case
IsEmbedPdfSrc(el) ==
  el.tag = "embed" /\ el.src # Null /\ el.type # Null /\ LowerStr(el.type) = ApplicationPdf
IsEmbedSrc(el) == el.tag = "embed" /\ el.src # Null
IsObjectData(el) == el.tag = "object" /\ el.data # Null
\* a button[onclick] whose handler assigns a .pdf address to location.href
IsButtonPdf(el) == el.tag = "button" /\ el.onclick # Null /\ locMatch(el.onclick) # Null
\* a script whose text holds an absolute .pdf URL
IsScriptPdf(el) == el.tag = "script" /\ pdfMatch(el.text) # Null

\* the scan of the parsed body, dom build, in priority order
ScanDom(dom, mirror) ==
  LET src(el) == [taken |-> el # NoEl, val |-> normalizeUrlDom(el.src, mirror)]
      data(el) == [taken |-> el # NoEl /\ LooksLikePdfPath(el.data),
                   val |-> normalizeUrlDom(el.data, mirror)]
      btn(el) == [taken |-> el # NoEl,
                  val |-> IF el = NoEl THEN Null
                          ELSE normalizeUrlDom(ReplaceAll(locMatch(el.onclick), <<"\\","/">>, <<"/">>), mirror)]
      scr(el) == [taken |-> el # NoEl, val |-> pdfMatch(el.text)]
  IN  FirstTaken(<<
        src(querySelector(dom, {k \in DOMAIN dom : IsIframeSrc(dom[k])})),
        src(querySelector(dom, {k \in DOMAIN dom : IsEmbedPdfSrc(dom[k])})),
        src(querySelector(dom, {k \in DOMAIN dom : IsEmbedSrc(dom[k])})),
        data(querySelector(dom, {k \in DOMAIN dom : IsObjectData(dom[k])})),
        btn(querySelector(dom, {k \in DOMAIN dom : IsButtonPdf(dom[k])})),
        scr(querySelector(dom, {k \in DOMAIN dom : IsScriptPdf(dom[k])})) >>)

\* findPDFUrl of the dom build
findPDFUrlDom(mirror, res) ==
  IF res.kind = "neterr" THEN Throws(res.msg)
  ELSE IF Includes(ContentTypeOf(res), ApplicationPdf) THEN Returns(res.url)
  ELSE IF res.kind = "readerr" THEN Throws(res.msg)
  ELSE IF IsChallenge(res.html) THEN Throws(CloudflareChallenge)
  ELSE Returns(ScanDom(res.dom, mirror))

\* ------------------------------------------------------------------------
\* downloadFromUrl: validation and the file name
\* ------------------------------------------------------------------------

PdfMagic == <<"%","P","D","F","-">>
InvalidPdfContent == <<"I","n","v","a","l","i","d"," ","P","D","F"," ","c","o","n","t","e","n","t">>
CouldNotFindPdfUrl == <<"C","o","u","l","d"," ","n","o","t"," ","f","i","n","d"," ","P","D","F"," ","U","R","L">>
AllMirrorsFailed == <<"A","l","l"," ","m","i","r","r","o","r","s"," ","f","a","i","l","e","d">>

\* the characters the file name keeps: [a-zA-Z0-9._-]
FileNameChar == Letter \cup Digit \cup {".", "_", "-"}

\* the transform without its first replace: slashes are removed, not replaced
filenameSlashRemoved(doi) ==
  SelectSeq(doi, LAMBDA c : c \in FileNameChar) \o <<".","p","d","f">>

\* doi.replace(/\//g, "_").replace(/[^a-zA-Z0-9._-]/g, "") + ".pdf"
filename(doi) ==
  SelectSeq(ReplaceAll(doi, <<"/">>, <<"_">>), LAMBDA c : c \in FileNameChar) \o <<".","p","d","f">>

\* dom build, the checks of downloadFromUrl on what fetch(pdfUrl), res.blob()
\* and blob.slice(0, 5).text() give: file.kind is "neterr" when fetch rejects,
\* "readerr" when res.blob() rejects; Returns(...) means the download call is
\* issued next
ValidateBlob(file) ==
  IF file.kind = "neterr" THEN Throws(file.msg)
  ELSE IF ~Includes(ContentTypeOf(file), ApplicationPdf)
    THEN Throws(<<"R","e","s","p","o","n","s","e"," ","i","s"," ","n","o","t"," ","a"," ","P","D","F"," ","(","g","o","t"," ">> \o ContentTypeOf(file) \o <<")">>)
  ELSE IF file.kind = "readerr" THEN Throws(file.msg)
  ELSE IF ~StartsWith(SubSeq(file.body, 1, IF Len(file.body) < 5 THEN Len(file.body) ELSE 5), PdfMagic)
    THEN Throws(InvalidPdfContent)
  ELSE Returns(Null)

\* regex build, after fetch(pdfUrl, {method: "HEAD"}) gave `file`: whatever
\* the answer (a throw included), the download call is issued next
ValidateHead(file) == Returns(Null)

\* ------------------------------------------------------------------------
\* State
\* ------------------------------------------------------------------------

VARIABLES
  variant,       \* which build of the background worker is installed
  pageId,        \* the document the content script runs in (index into Pages)
  readyState,    \* document.readyState
  cs,            \* content script: "start" before its top level ran, "ran" after
  loadListener,  \* window "load" listener registered and not yet called
  timer,         \* the 2000 ms retry timer is pending
  btns,          \* the #scihub-ext-btn elements of the document: the doi each captured
  loading,       \* the button carries the class scihub-ext-loading
  status,        \* text of #scihub-ext-status
  initRuns,      \* number of calls of init() in this page load
  session,       \* the network of this page load and the clicks the user makes in it
  clicks,        \* number of clicks delivered to the button
  clearTimers,   \* pending 3000 ms timers that blank the status
  reqs,          \* download requests sent and not yet answered, oldest first
  ident,         \* study of the file name: the identifier given to downloadFromUrl
  names,         \* study of the file name: the names computed so far, oldest first
  served,        \* study of the resolver: the mirror asked and the body it served
  found          \* study of the resolver: what findPDFUrl gave for it, <<>> before

vars == <<variant, session, pageId, readyState, cs, loadListener, timer, btns,
          loading, status, initRuns, clicks, clearTimers, reqs, ident, names,
          served, found>>

\* the variables of the function studies: the extension never touches them
studyVars == <<ident, names, served, found>>

pageVars == <<pageId, readyState, cs, loadListener, timer, btns, initRuns>>
uiVars == <<loading, status, clicks, clearTimers>>

\* ------------------------------------------------------------------------
\* Background worker: handleDownload as a state machine over one request
\* ------------------------------------------------------------------------

NoFile == [kind |-> "none", msg |-> Null, contentType |-> Null, body |-> <<>>]
NoCall == [url |-> Null, filename |-> Null]
NoResponse == [sent |-> FALSE, success |-> FALSE, error |-> Null]
\* the most recent failed iteration of the mirror loop: which mirror, whether
\* findPDFUrl ("resolve") or downloadFromUrl ("save") threw, the message, and
\* what had been received: the body of the mirror and the file at the address
NoFailure == [mirror |-> 0, stage |-> "none", msg |-> Null, html |-> <<>>,
              file |-> NoFile]

\* chrome.runtime.sendMessage({action: "downloadPDF", doi: doi}, callback)
NewRequest(doi) ==
  [action |-> "downloadPDF", doi |-> doi, pc |-> "sent", i |-> 0,
   lastError |-> Null, pdfUrl |-> Null, attempts |-> <<>>, pending |-> {},
   failed |-> NoFailure, html |-> <<>>, file |-> NoFile, call |-> NoCall, saved |-> 0,
   response |-> NoResponse]

\* the listener's test: request.action === "downloadPDF" && request.doi
Accepts(r) == r.action = "downloadPDF" /\ ~Falsy(r.doi)

\* the address findPDFUrl fetches: mirror + "/" + doi
MirrorUrl(r) == SCIHUB_MIRRORS[r.i] \o <<"/">> \o r.doi

\* one iteration of the mirror loop begins: findPDFUrl(mirror, doi) is called
\* and its fetch is awaited
StartAttempt(r, i) ==
  [r EXCEPT !.i = i, !.pc = "awaitMirror", !.pdfUrl = Null, !.html = <<>>,
            !.file = NoFile,
            !.call = NoCall, !.attempts = Append(@, i), !.pending = @ \cup {i}]

\* sendResponse(result)
Respond(r, success, error) ==
  [r EXCEPT !.pc = "responded",
            !.response = [sent |-> TRUE, success |-> success, error |-> error]]

\* variant of Exhausted: the generic message whatever was recorded
ExhaustedGeneric(r) == Respond(r, FALSE, AllMirrorsFailed)

\* return { success: false, error: lastError || "All mirrors failed" }
Exhausted(r) ==
  Respond(r, FALSE, IF Falsy(r.lastError) THEN AllMirrorsFailed ELSE r.lastError)

\* the record of a failed iteration: for findPDFUrl the body it had read, for
\* downloadFromUrl the file it had fetched
Failure(r, stage, msg) ==
  [mirror |-> r.i, stage |-> stage, msg |-> msg,
   html |-> IF stage = "resolve" THEN r.html ELSE <<>>,
   file |-> IF stage = "save" THEN r.file ELSE NoFile]

\* variant of FailAttempt: a mirror that failed is tried a second time before
\* the loop moves on
FailAttemptRetry(r, stage, msg) ==
  LET r1 == [r EXCEPT !.lastError = msg, !.pending = @ \ {r.i},
                      !.failed = Failure(r, stage, msg)]
      tries == Cardinality({j \in 1..Len(r.attempts) : r.attempts[j] = r.i})
  IN  IF tries < 2 THEN StartAttempt(r1, r.i)
      ELSE IF r.i < Len(SCIHUB_MIRRORS) THEN StartAttempt(r1, r.i + 1)
      ELSE Exhausted(r1)

\* variant of FailAttempt: the first error is kept, later ones are dropped
FailAttemptKeepFirst(r, stage, msg) ==
  LET r1 == [r EXCEPT !.lastError = IF Falsy(@) THEN msg ELSE @,
                      !.pending = @ \ {r.i},
                      !.failed = Failure(r, stage, msg)]
  IN  IF r.i < Len(SCIHUB_MIRRORS) THEN StartAttempt(r1, r.i + 1) ELSE Exhausted(r1)

\* the iteration for mirror r.i ends with the error msg: it is recorded and the
\* loop continues with the next mirror, or ends when the list is exhausted
FailAttempt(r, stage, msg) ==
  LET r1 == [r EXCEPT !.lastError = msg, !.pending = @ \ {r.i},
                      !.failed = Failure(r, stage, msg)]
  IN  IF r.i < Len(SCIHUB_MIRRORS) THEN StartAttempt(r1, r.i + 1) ELSE Exhausted(r1)

\* downloadFromUrl(pdfUrl, doi) is called: the file (dom build) or its
\* headers (regex build) are fetched first
BeginDownload(r, pdfUrl) ==
  [r EXCEPT !.pdfUrl = pdfUrl, !.pc = "awaitFile", !.html = <<>>]

\* chrome.downloads.download({url, filename, saveAs: false}, callback)
IssueDownload(r, url) ==
  [r EXCEPT !.pc = "awaitDownload",
            !.call = [url |-> url, filename |-> filename(r.doi)]]

\* variant of AfterFind: findPDFUrl called outside the try block, so that its
\* exception rejects handleDownload and the listener answers with it
AfterFindUncaught(r, f) ==
  IF f.threw
    THEN Respond([r EXCEPT !.pending = @ \ {r.i},
                           !.failed = Failure(r, "resolve", f.msg)],
                 FALSE, f.msg)
  ELSE IF Falsy(f.val) THEN FailAttempt(r, "resolve", CouldNotFindPdfUrl)
  ELSE BeginDownload(r, f.val)

\* the continuation of handleDownload once findPDFUrl settled with f
AfterFind(r, f) ==
  IF f.threw THEN FailAttempt(r, "resolve", f.msg)
  ELSE IF Falsy(f.val) THEN FailAttempt(r, "resolve", CouldNotFindPdfUrl)
  ELSE BeginDownload(r, f.val)

\* variant of AfterDownload: the loop goes on after a successful download
AfterDownloadNoReturn(r, result) ==
  IF ~result.ok THEN FailAttempt(r, "save", result.msg)
  ELSE IF r.i < Len(SCIHUB_MIRRORS)
    THEN StartAttempt([r EXCEPT !.saved = @ + 1, !.pending = @ \ {r.i}], r.i + 1)
  ELSE Exhausted([r EXCEPT !.saved = @ + 1, !.pending = @ \ {r.i}])

\* the download callback: reject on chrome.runtime.lastError, else resolve,
\* and handleDownload returns { success: true }
AfterDownload(r, result) ==
  IF ~result.ok THEN FailAttempt(r, "save", result.msg)
  ELSE Respond([r EXCEPT !.saved = @ + 1, !.pending = @ \ {r.i}], TRUE, Null)

\* reqs with its k-th request replaced / removed
Put(k, r) == [reqs EXCEPT ![k] = r]
Drop(k) == [j \in 1..(Len(reqs) - 1) |-> IF j < k THEN reqs[j] ELSE reqs[j + 1]]

\* ------------------------------------------------------------------------
\* What the network and the platform may answer
\* ------------------------------------------------------------------------

FailedToFetch == <<"F","a","i","l","e","d"," ","t","o"," ","f","e","t","c","h">>
\* the message of the TypeError a body read rejects with when the connection
\* drops after the headers
NetworkError == <<"n","e","t","w","o","r","k"," ","e","r","r","o","r">>

El(tag, src, type, data, onclick, text) ==
  [tag |-> tag, src |-> src, type |-> type, data |-> data, onclick |-> onclick,
   text |-> text]

\* bodies a mirror may serve: the text and what DOMParser makes of it
BodyChallenge ==
  [html |-> <<"<","t","i","t","l","e",">","J","u","s","t"," ","a"," ","m","o","m","e","n","t",".",".",".","<","/","t","i","t","l","e",">","<","s","c","r","i","p","t"," ","s","r","c","=","\"","/","c","d","n","-","c","g","i","/","c","f","_","c","h","l","_","o","p","t",".","j","s","\"",">","<","/","s","c","r","i","p","t",">">>,
   dom |-> << El("title", Null, Null, Null, Null, <<"J","u","s","t"," ","a"," ","m","o","m","e","n","t",".",".",".">>),
              El("script", <<"/","c","d","n","-","c","g","i","/","c","f","_","c","h","l","_","o","p","t",".","j","s">>, Null, Null, Null, <<>>) >>]
BodyNotFound ==
  [html |-> <<"<","p",">","a","r","t","i","c","l","e"," ","n","o","t"," ","f","o","u","n","d","<","/","p",">">>,
   dom |-> << El("p", Null, Null, Null, Null, <<"a","r","t","i","c","l","e"," ","n","o","t"," ","f","o","u","n","d">>) >>]
BodyIframe ==
  [html |-> <<"<","i","f","r","a","m","e"," ","s","r","c","=","\"","/","/","s","c","i",".","b","b","a","n",".","t","o","p","/","p","d","f","/","a",".","p","d","f","#","v","i","e","w","=","F","i","t","H","\"",">","<","/","i","f","r","a","m","e",">">>,
   dom |-> << El("iframe", <<"/","/","s","c","i",".","b","b","a","n",".","t","o","p","/","p","d","f","/","a",".","p","d","f","#","v","i","e","w","=","F","i","t","H">>, Null, Null, Null, <<>>) >>]
BodyEmbed ==
  [html |-> <<"<","e","m","b","e","d"," ","t","y","p","e","=","\"","a","p","p","l","i","c","a","t","i","o","n","/","p","d","f","\""," ","s","r","c","=","\"","/","s","t","o","r","a","g","e","/","1","2","3","/","x",".","p","d","f","\"",">">>,
   dom |-> << El("embed", <<"/","s","t","o","r","a","g","e","/","1","2","3","/","x",".","p","d","f">>, ApplicationPdf, Null, Null, <<>>) >>]
Bodies == {BodyChallenge, BodyNotFound, BodyIframe, BodyEmbed}

TextHtml == <<"t","e","x","t","/","h","t","m","l">>

\* answers of fetch(mirror + "/" + doi); reqUrl is the address asked for
MirrorResults(reqUrl) ==
  {[kind |-> "neterr", msg |-> FailedToFetch, contentType |-> Null, url |-> Null,
    html |-> <<>>, dom |-> <<>>],
   [kind |-> "ok", msg |-> Null, contentType |-> ApplicationPdf, url |-> reqUrl,
    html |-> <<>>, dom |-> <<>>]}
  \cup {[kind |-> "ok", msg |-> Null, contentType |-> TextHtml, url |-> reqUrl,
         html |-> b.html, dom |-> b.dom] : b \in Bodies}
  \cup {[kind |-> "readerr", msg |-> NetworkError, contentType |-> TextHtml,
          url |-> reqUrl, html |-> <<>>, dom |-> <<>>]}

\* what lies at a resolved file address
FileResults ==
  {[kind |-> "neterr", msg |-> FailedToFetch, contentType |-> Null, body |-> <<>>],
   [kind |-> "ok", msg |-> Null, contentType |-> ApplicationPdf, body |-> <<"%","P","D","F","-","1",".","4">>],
   [kind |-> "ok", msg |-> Null, contentType |-> ApplicationPdf, body |-> <<"<","h","t","m","l",">">>],
   [kind |-> "ok", msg |-> Null, contentType |-> TextHtml, body |-> <<"<","h","t","m","l",">">>],
   [kind |-> "readerr", msg |-> NetworkError, contentType |-> ApplicationPdf, body |-> <<>>]}

\* what the download callback may report: an id, or chrome.runtime.lastError
DownloadResults ==
  {[ok |-> TRUE, msg |-> Null], [ok |-> FALSE, msg |-> <<"I","n","v","a","l","i","d"," ","f","i","l","e","n","a","m","e">>]}

\* number of clicks followed on a calm network
MaxClicks == 2

\* the page loads followed. On the rough network every answer above may come,
\* and one click is followed. On a calm network every call settles, all
\* mirrors serve the same page b for the article (they hold it or they do
\* not), the file is a PDF and the platform saves it; MaxClicks clicks are
\* followed, each at any moment.
Rough == [net |-> "rough", clicks |-> 1, page |-> <<>>]
Calm(b) == [net |-> "calm", clicks |-> MaxClicks, page |-> b.html]
Sessions == {Rough} \cup {Calm(b) : b \in {BodyIframe, BodyNotFound}}

\* the answers of a mirror and the files that come on a calm network
CalmPage(res) == res.kind = "ok" /\ res.html = session.page
CalmFile(file) == file.kind = "ok" /\ StartsWith(file.body, PdfMagic)

\* ------------------------------------------------------------------------
\* Background worker: actions
\* ------------------------------------------------------------------------

\* the onMessage listener takes the message and calls handleDownload, which
\* runs up to the fetch for the first mirror
OnMessage(k) ==
  /\ reqs[k].pc = "sent"
  /\ Accepts(reqs[k])
  /\ reqs' = Put(k, StartAttempt([reqs[k] EXCEPT !.lastError = Null], 1))
  /\ UNCHANGED <<variant, session, studyVars, pageVars, uiVars>>

\* whether findPDFUrl goes on to await res.text() after fetch gave res
ReadsBody(res) ==
  res.kind # "neterr" /\ ~Includes(ContentTypeOf(res), ApplicationPdf)

\* the fetch of findPDFUrl settles: it rejects, or the answer is the PDF
\* itself, or res.text() is awaited next
MirrorResponds(k) ==
  /\ reqs[k].pc = "awaitMirror"
  /\ \E res \in MirrorResults(MirrorUrl(reqs[k])) :
       /\ session.net = "calm" => CalmPage(res)
       /\ LET mirror == SCIHUB_MIRRORS[reqs[k].i]
              f == IF variant = "regex" THEN findPDFUrl(mirror, res)
                   ELSE findPDFUrlDom(mirror, res)
          IN  reqs' = Put(k, IF ReadsBody(res) THEN [reqs[k] EXCEPT !.pc = "awaitBody"]
                             ELSE AfterFind(reqs[k], f))
  /\ UNCHANGED <<variant, session, studyVars, pageVars, uiVars>>

\* findPDFUrl of each build for each mirror and each body of Bodies served as
\* text/html; the address of the answer is not read on this path. The table
\* is merged with the empty function so that it is built once, not entry by
\* entry at each use.
Scanned ==
  [t \in Variants \X (1..Len(SCIHUB_MIRRORS)) \X Bodies |->
    LET res == [kind |-> "ok", msg |-> Null, contentType |-> TextHtml, url |-> Null,
                html |-> t[3].html, dom |-> t[3].dom]
    IN  IF t[1] = "regex" THEN findPDFUrl(SCIHUB_MIRRORS[t[2]], res)
        ELSE findPDFUrlDom(SCIHUB_MIRRORS[t[2]], res)] @@ <<>>

\* findPDFUrl of build v for mirror i and the answer res: looked up when res
\* carries a body of Bodies, computed otherwise
findPDFUrlOf(v, i, res) ==
  LET known == {b \in Bodies : /\ res.kind = "ok" /\ res.contentType = TextHtml
                               /\ res.html = b.html /\ res.dom = b.dom}
  IN  IF known # {} THEN Scanned[<<v, i, CHOOSE b \in known : TRUE>>]
      ELSE IF v = "regex" THEN findPDFUrl(SCIHUB_MIRRORS[i], res)
      ELSE findPDFUrlDom(SCIHUB_MIRRORS[i], res)

\* res.text() settles: findPDFUrl scans the body and handleDownload runs up
\* to its next await
BodyRead(k) ==
  /\ reqs[k].pc = "awaitBody"
  /\ \E res \in MirrorResults(MirrorUrl(reqs[k])) :
       /\ ReadsBody(res)
       /\ session.net = "calm" => CalmPage(res)
       /\ LET f == findPDFUrlOf(variant, reqs[k].i, res)
          IN  reqs' = Put(k, AfterFind([reqs[k] EXCEPT !.html = res.html], f))
  /\ UNCHANGED <<variant, session, studyVars, pageVars, uiVars>>

\* whether downloadFromUrl of the dom build goes on to await res.blob()
\* after fetch gave file
ReadsBlob(file) ==
  file.kind # "neterr" /\ Includes(ContentTypeOf(file), ApplicationPdf)

\* dom build: fetch(pdfUrl) settles: it rejects, or the content type is not
\* a PDF's, or res.blob() is awaited next
FileResponds(k) ==
  /\ variant = "dom"
  /\ reqs[k].pc = "awaitFile"
  /\ \E file \in FileResults :
       /\ session.net = "calm" => CalmFile(file)
       /\ LET r == [reqs[k] EXCEPT !.file = file]
              v == ValidateBlob(file)
          IN  reqs' = Put(k, IF ReadsBlob(file) THEN [reqs[k] EXCEPT !.pc = "awaitBlob"]
                             ELSE FailAttempt(r, "save", v.msg))
  /\ UNCHANGED <<variant, session, studyVars, pageVars, uiVars>>

\* dom build: res.blob() settles; blob.slice(0, 5).text() is awaited next
BlobRead(k) ==
  /\ variant = "dom"
  /\ reqs[k].pc = "awaitBlob"
  /\ \E file \in FileResults :
       /\ ReadsBlob(file)
       /\ session.net = "calm" => CalmFile(file)
       /\ LET r == [reqs[k] EXCEPT !.file = file]
          IN  reqs' = Put(k, IF file.kind = "readerr" THEN FailAttempt(r, "save", file.msg)
                             ELSE [r EXCEPT !.pc = "awaitHeader"])
  /\ UNCHANGED <<variant, session, studyVars, pageVars, uiVars>>

\* dom build: the first five bytes are there; the blob is validated and
\* handed to chrome.downloads.download through an object URL
HeaderRead(k) ==
  /\ variant = "dom"
  /\ reqs[k].pc = "awaitHeader"
  /\ LET r == reqs[k]
         v == ValidateBlob(r.file)
     IN  reqs' = Put(k, IF v.threw THEN FailAttempt(r, "save", v.msg)
                        ELSE IssueDownload(r, <<"b","l","o","b",":">> \o r.pdfUrl))
  /\ UNCHANGED <<variant, session, studyVars, pageVars, uiVars>>

\* regex build: the HEAD request settles; the address itself is handed to
\* chrome.downloads.download
HeadChecked(k) ==
  /\ variant = "regex"
  /\ reqs[k].pc = "awaitFile"
  /\ \E file \in FileResults :
       /\ session.net = "calm" => CalmFile(file)
       /\ LET r == [reqs[k] EXCEPT !.file = file]
              v == ValidateHead(file)
          IN  reqs' = Put(k, IF v.threw THEN FailAttempt(r, "save", v.msg)
                             ELSE IssueDownload(r, r.pdfUrl))
  /\ UNCHANGED <<variant, session, studyVars, pageVars, uiVars>>

\* the callback of chrome.downloads.download runs
DownloadCallback(k) ==
  /\ reqs[k].pc = "awaitDownload"
  /\ \E result \in DownloadResults :
       /\ session.net = "calm" => result.ok
       /\ reqs' = Put(k, AfterDownload(reqs[k], result))
  /\ UNCHANGED <<variant, session, studyVars, pageVars, uiVars>>

\* ------------------------------------------------------------------------
\* Content script: the DOI expressions
\* ------------------------------------------------------------------------

\* Domains where the button is not injected
IGNORE_DOMAINS == <<
  <<"g","o","o","g","l","e",".","c","o","m">>, <<"b","i","n","g",".","c","o","m">>, <<"d","u","c","k","d","u","c","k","g","o",".","c","o","m">>, <<"f","a","c","e","b","o","o","k",".","c","o","m">>,
  <<"t","w","i","t","t","e","r",".","c","o","m">>, <<"x",".","c","o","m">>, <<"r","e","d","d","i","t",".","c","o","m">>, <<"y","o","u","t","u","b","e",".","c","o","m">>,
  <<"g","i","t","h","u","b",".","c","o","m">>, <<"s","c","i","-","h","u","b",".">> >>

\* shouldIgnorePage(): IGNORE_DOMAINS.some((d) => host.includes(d))
shouldIgnorePage(host) ==
  \E k \in 1..Len(IGNORE_DOMAINS) : Includes(host, IGNORE_DOMAINS[k])

\* smallest and largest number of registrant digits: \d{4,9}
MinDigits == 4
MaxDigits == 9

\* 10\.\d{4,9}\/ matched at index p: the index after the slash, 0 for no match
DoiHeadAt(s, p) ==
  LET slash(e) == IF e - p - 2 >= MinDigits /\ e - p - 2 <= MaxDigits
                    THEN Expect(s, e + 1, {"/"})
                    ELSE 0
  IN  IF IsPrefixAt(s, p, <<"1","0",".">>) THEN slash(SpanEnd(s, p + 3, Digit)) ELSE 0

\* 10\.\d{4,9}\/[^Excl]+ matched at index p, the token taken greedily to the
\* end of its run: the end index of the match, 0 for no match
DoiRunAt(s, p, Excl) ==
  LET run(t, e) == IF e >= t THEN e ELSE 0
      token(t) == IF t = 0 THEN 0 ELSE run(t, RunEnd(s, t, Excl))
  IN  token(DoiHeadAt(s, p))

\* \b holds between index e and index e + 1
BoundaryAfter(s, e) ==
  LET left == e >= 1 /\ s[e] \in WordChar
      right == e + 1 <= Len(s) /\ s[e + 1] \in WordChar
  IN  left # right

\* DOI_REGEX = /\b(10\.\d{4,9}\/[^\s"'<>&]+)\b/ matched at index p: the
\* capture, Null for no match; the token backs off to the last word boundary
DoiTokenStop == WhiteSpace \cup {"\"", "'", "<", ">", "&"}
DoiRegexAt(s, p) ==
  LET cut(e) == IF e = 0 THEN Null ELSE SubSeq(s, p, e)
      token(t) ==
        IF t = 0 THEN Null
        ELSE cut(MaxOf({e \in t..RunEnd(s, t, DoiTokenStop) : BoundaryAfter(s, e)} \cup {0}))
  IN  IF BoundaryAfter(s, p - 1) THEN token(DoiHeadAt(s, p)) ELSE Null
\* s.match(DOI_REGEX): the capture of the leftmost match
DOI_REGEX(s) == FirstHit([p \in 1..Len(s) |-> DoiRegexAt(s, p)])

\* value.replace(/^(doi:|https?:\/\/doi\.org\/)/, "")
StripDoiPrefix(s) ==
  IF StartsWith(s, <<"d","o","i",":">>) THEN From(s, 5)
  ELSE IF StartsWith(s, <<"h","t","t","p",":","/","/","d","o","i",".","o","r","g","/">>) THEN From(s, 16)
  ELSE IF StartsWith(s, <<"h","t","t","p","s",":","/","/","d","o","i",".","o","r","g","/">>) THEN From(s, 17)
  ELSE s

\* doi\.org\/(10\.\d{4,9}\/[^Excl]+) matched at index p: the capture
DoiOrgAt(s, p, Excl) ==
  LET cap(e) == IF e = 0 THEN Null ELSE SubSeq(s, p + 8, e)
  IN  IF IsPrefixAt(s, p, <<"d","o","i",".","o","r","g","/">>) THEN cap(DoiRunAt(s, p + 8, Excl)) ELSE Null

\* (?:dx\.)?doi\.org\/(10\.\d{4,9}\/[^Excl]+) matched at index a: the capture;
\* the optional group is taken where "dx." stands, for doi.org cannot begin there
DxDoiOrgAt(s, a, Excl) ==
  DoiOrgAt(s, IF IsPrefixAt(s, a, <<"d","x",".">>) THEN a + 3 ELSE a, Excl)

\* url.match(/https?:\/\/(?:dx\.)?doi\.org\/(10\.\d{4,9}\/[^\s?#]+)/)
UrlTokenStop == WhiteSpace \cup {"?", "#"}
DoiOrgUrlAt(s, p) ==
  LET host(l0) == IF l0 = 0 THEN Null ELSE DxDoiOrgAt(s, p + l0, UrlTokenStop)
  IN  host(SchemeLen(s, p))
doiOrgMatch(url) == FirstHit([p \in 1..Len(url) |-> DoiOrgUrlAt(url, p)])

\* url.match(/\/(?:doi|article|abs|full|pdf)\/?(10\.\d{4,9}\/[^\s?#]+)/)
PathWords == << <<"d","o","i">>, <<"a","r","t","i","c","l","e">>, <<"a","b","s">>, <<"f","u","l","l">>, <<"p","d","f">> >>
UrlDoiAt(s, p) ==
  LET cap(b, e) == IF e = 0 THEN Null ELSE SubSeq(s, b, e)
      token(b) == cap(b, DoiRunAt(s, b, UrlTokenStop))
      word(a) == token(IF IsPrefixAt(s, a, <<"/">>) THEN a + 1 ELSE a)
      words(ws) == IF ws = {} THEN Null ELSE word(p + 1 + Len(PathWords[MinOf(ws)]))
  IN  IF IsPrefixAt(s, p, <<"/">>)
        THEN words({k \in 1..Len(PathWords) : IsPrefixAt(s, p + 1, PathWords[k])})
        ELSE Null
urlDoiMatch(url) == FirstHit([p \in 1..Len(url) |-> UrlDoiAt(url, p)])

\* href.match(/(?:dx\.)?doi\.org\/(10\.\d{4,9}\/[^\s?#"']+)/)
HrefTokenStop == WhiteSpace \cup {"?", "#", "\"", "'"}
hrefDoiMatch(href) == FirstHit([p \in 1..Len(href) |-> DoiOrgAt(href, p, HrefTokenStop)])

\* txt.match(/["']?doi["']?\s*[:=]\s*["'](10\.\d{4,9}\/[^"']+)["']/i), anchored
\* on the index p of "doi"
DoiStringAt(s, p) ==
  LET cap(c, e) == IF e # 0 /\ e + 1 <= Len(s) THEN SubSeq(s, c, e) ELSE Null
      token(c) == IF c = 0 THEN Null ELSE cap(c, DoiRunAt(s, c, Quotes))
      quote(b) == IF b = 0 THEN 0 ELSE Expect(s, SkipWs(s, b), Quotes)
      sep(a) == token(quote(Expect(s, SkipWs(s, a), {":", "="})))
  IN  IF IsPrefixAtI(s, p, <<"d","o","i">>)
        THEN sep(IF p + 3 <= Len(s) /\ s[p + 3] \in Quotes THEN p + 4 ELSE p + 3)
        ELSE Null
doiStringMatch(txt) == FirstHit([p \in 1..Len(txt) |-> DoiStringAt(txt, p)])

\* cleanDOI: doi.replace(/[.,;)\]]+$/, "")
TrailingPunct == {".", ",", ";", ")", "]"}
cleanDOI(doi) ==
  SubSeq(doi, 1, MaxOf({k \in 1..Len(doi) : doi[k] \notin TrailingPunct} \cup {0}))

\* ------------------------------------------------------------------------
\* Content script: detectDOI
\* ------------------------------------------------------------------------

\* the selectors of tier 1, in order: meta[ATTR="VALUE"] and, for the second,
\* also [scheme="doi"]
Sel(attr, value, scheme) == [attr |-> attr, value |-> value, scheme |-> scheme]
metaSelectors == <<
  Sel("name", "citation_doi", ""),
  Sel("name", "dc.identifier", "doi"),
  Sel("name", "dc.identifier", ""),
  Sel("name", "DC.identifier", ""),
  Sel("name", "DC.Identifier", ""),
  Sel("name", "doi", ""),
  Sel("name", "DOI", ""),
  Sel("property", "citation_doi", ""),
  Sel("name", "prism.doi", ""),
  Sel("name", "bepress_citation_doi", ""),
  Sel("name", "eprints.id_number", "") >>

\* a meta element [name, property, scheme, content] matches a selector
MetaMatches(el, sel) ==
  /\ IF sel.attr = "name" THEN el.name = sel.value ELSE el.property = sel.value
  /\ sel.scheme # "" => el.scheme = sel.scheme

\* the prefix strip and DOI_REGEX that tiers 1 and 3 apply to a value
DoiOfValue(val) == DOI_REGEX(StripDoiPrefix(val))

\* tier 1: for each selector, document.querySelector(sel) and its content
MetaHit(metas, sel) ==
  LET content(el) == DoiOfValue(IF Falsy(el.content) THEN <<>> ELSE el.content)
      first(els) == IF els = {} THEN Null ELSE content(metas[MinOf(els)])
  IN  first({k \in 1..Len(metas) : MetaMatches(metas[k], sel)})
MetaTier(metas) ==
  FirstHit([k \in 1..Len(metaSelectors) |-> MetaHit(metas, metaSelectors[k])])

\* JSON-LD values: [t |-> "null" | "str" | "arr" | "obj" | "other", v |-> ...];
\* v is the text, the sequence of items, or the record of the object's keys
LdKeys == <<"doi", "DOI", "@id", "identifier", "sameAs">>

\* one key of an object: a string value, or the strings of an array value
LdKeyHit(obj, key) ==
  LET item(it) == IF it.t = "str" THEN DoiOfValue(it.v) ELSE Null
      each(items) == FirstHit([k \in 1..Len(items) |-> item(items[k])])
      values(val) == IF val.t = "arr" THEN val.v ELSE <<val>>
  IN  IF key \in DOMAIN obj THEN each(values(obj[key])) ELSE Null

RECURSIVE extractDOIFromLD(_)
extractDOIFromLD(data) ==
  IF data.t = "null" \/ (data.t = "str" /\ data.v = <<>>) THEN Null
  ELSE IF data.t = "arr"
    THEN FirstHit([k \in 1..Len(data.v) |-> extractDOIFromLD(data.v[k])])
  ELSE IF data.t = "obj"
    THEN FirstHit([k \in 1..Len(LdKeys) |-> LdKeyHit(data.v, LdKeys[k])])
  ELSE Null

\* script[type="application/ld+json"]: HTML compares type values without case
IsLdScript(el) == el.type # Null /\ LowerStr(el.type) = <<"a","p","p","l","i","c","a","t","i","o","n","/","l","d","+","j","s","o","n">>

\* tier 3: each script[type="application/ld+json"] of the document, with or
\* without a src attribute; json is what JSON.parse(script.textContent)
\* gives, and a block JSON.parse rejects is skipped
LdTier(scripts) ==
  FirstHit([k \in 1..Len(scripts) |->
              IF IsLdScript(scripts[k]) /\ scripts[k].json.ok
                THEN extractDOIFromLD(scripts[k].json.data)
              ELSE Null])

\* tier 4: the hrefs of a[href*="doi.org/10."], a[href*="dx.doi.org/10."]
LinkTier(links) ==
  FirstHit([k \in 1..Len(links) |->
              IF Includes(links[k], <<"d","o","i",".","o","r","g","/","1","0",".">>) THEN hrefDoiMatch(links[k])
              ELSE Null])

\* tier 5: the text of each script:not([src]) of the document, whatever its
\* type: a JSON-LD block written inline is read here as well
ScriptTier(scripts) ==
  FirstHit([k \in 1..Len(scripts) |->
              IF scripts[k].src = Null THEN doiStringMatch(scripts[k].text) ELSE Null])

\* tier 6: the text of each metadata container
ContainerTier(containers) ==
  FirstHit([k \in 1..Len(containers) |-> DOI_REGEX(containers[k])])

\* detectDOI(): the tiers in priority order
detectDOI(page) ==
  FirstHit(<<MetaTier(page.metas),
             doiOrgMatch(page.href),
             urlDoiMatch(page.href),
             LdTier(page.scripts),
             LinkTier(page.links),
             ScriptTier(page.scripts),
             ContainerTier(page.containers)>>)

\* ------------------------------------------------------------------------
\* Pages the content script may be loaded into
\* ------------------------------------------------------------------------

Meta(name, property, scheme, content) ==
  [name |-> name, property |-> property, scheme |-> scheme, content |-> content]
\* a document: scripts holds its script elements in document order
Page(host, href, metas, links, scripts, containers) ==
  [host |-> host, href |-> href, metas |-> metas, links |-> links,
   scripts |-> scripts, containers |-> containers]
LdStr(v) == [t |-> "str", v |-> v]
LdObj(v) == [t |-> "obj", v |-> v]
LdArr(v) == [t |-> "arr", v |-> v]
\* what JSON.parse gives for a text: the value, or ok = FALSE for a SyntaxError
LdBlock(ok, data) == [ok |-> ok, data |-> data]
NoJson == LdBlock(FALSE, [t |-> "null", v |-> <<>>])
\* a script element: its type and src attributes (Null when not written), its
\* text, and what JSON.parse gives for that text
Script(type, src, text, json) == [type |-> type, src |-> src, text |-> text, json |-> json]
Inline(text) == Script(Null, Null, text, NoJson)

Pages == <<
  \* 1: publisher page, citation_doi meta tag
  Page(<<"w","w","w",".","n","a","t","u","r","e",".","c","o","m">>, <<"h","t","t","p","s",":","/","/","w","w","w",".","n","a","t","u","r","e",".","c","o","m","/","a","r","t","i","c","l","e","s","/","n","a","t","u","r","e","1","2","3","7","3">>,
       << Meta("citation_doi", "", "", <<"d","o","i",":","1","0",".","1","0","3","8","/","n","a","t","u","r","e","1","2","3","7","3">>) >>,
       <<>>, <<>>, <<>>),
  \* 2: resolver address, no metadata
  Page(<<"d","o","i",".","o","r","g">>, <<"h","t","t","p","s",":","/","/","d","o","i",".","o","r","g","/","1","0",".","1","0","3","8","/","n","a","t","u","r","e","1","2","3","7","3">>,
       <<>>, <<>>, <<>>, <<>>),
  \* 3: resolver address whose suffix is punctuation only
  Page(<<"d","o","i",".","o","r","g">>, <<"h","t","t","p","s",":","/","/","d","o","i",".","o","r","g","/","1","0",".","1","2","3","4","/",")">>,
       <<>>, <<>>, <<>>, <<>>),
  \* 4: ignored domain carrying valid metadata
  Page(<<"s","c","h","o","l","a","r",".","g","o","o","g","l","e",".","c","o","m">>, <<"h","t","t","p","s",":","/","/","s","c","h","o","l","a","r",".","g","o","o","g","l","e",".","c","o","m","/","s","c","h","o","l","a","r","?","q","=","x">>,
       << Meta("citation_doi", "", "", <<"1","0",".","1","0","3","8","/","n","a","t","u","r","e","1","2","3","7","3">>) >>,
       <<>>, <<>>, <<>>),
  \* 5: a page without any identifier
  Page(<<"e","x","a","m","p","l","e",".","o","r","g">>, <<"h","t","t","p","s",":","/","/","e","x","a","m","p","l","e",".","o","r","g","/">>,
       << Meta("description", "", "", <<"v","e","r","s","i","o","n"," ","1","0",".","5">>) >>,
       <<>>, <<>>, << <<"W","e","l","c","o","m","e">> >>),
  \* 6: single-page application before its metadata is there
  Page(<<"i","e","e","e","x","p","l","o","r","e",".","i","e","e","e",".","o","r","g">>, <<"h","t","t","p","s",":","/","/","i","e","e","e","x","p","l","o","r","e",".","i","e","e","e",".","o","r","g","/","d","o","c","u","m","e","n","t","/","7","7","1","0","7","3">>,
       <<>>, <<>>, << Inline(<<"v","a","r"," ","a"," ","="," ","1",";">>) >>, <<>>),
  \* 7: the same page once the metadata is populated
  Page(<<"i","e","e","e","x","p","l","o","r","e",".","i","e","e","e",".","o","r","g">>, <<"h","t","t","p","s",":","/","/","i","e","e","e","x","p","l","o","r","e",".","i","e","e","e",".","o","r","g","/","d","o","c","u","m","e","n","t","/","7","7","1","0","7","3">>,
       <<>>, <<>>,
       << Inline(<<"v","a","r"," ","a"," ","="," ","1",";">>),
          Inline(<<"g",".","m","e","t","a","d","a","t","a","=","{","\"","d","o","i","\"",":","\"","1","0",".","1","1","0","9","/","5",".","7","7","1","0","7","3","\"",",","\"","x","\"",":","1","}",";">>) >>,
       <<>>),
  \* 8: JSON-LD, a malformed block first
  Page(<<"j","o","u","r","n","a","l","s",".","p","l","o","s",".","o","r","g">>, <<"h","t","t","p","s",":","/","/","j","o","u","r","n","a","l","s",".","p","l","o","s",".","o","r","g","/","p","l","o","s","o","n","e","/","a","r","t","i","c","l","e","?","i","d","=","1">>,
       <<>>, <<>>,
       << Script(<<"a","p","p","l","i","c","a","t","i","o","n","/","l","d","+","j","s","o","n">>, Null, <<"{","\"","@","t","y","p","e","\"",":"," ">>, NoJson),
          Script(<<"a","p","p","l","i","c","a","t","i","o","n","/","l","d","+","j","s","o","n">>, Null,
                 <<"[","{","\"","n","a","m","e","\"",":","\"","x","\"","}",",","{","\"","s","a","m","e","A","s","\"",":","[","\"","h","t","t","p","s",":","/","/","d","o","i",".","o","r","g","/","1","0",".","1","3","7","1","/","j","o","u","r","n","a","l",".","p","o","n","e",".","0","0","0","0","0","0","1","\"","]","}","]">>,
                 LdBlock(TRUE, LdArr(<< LdObj([name |-> LdStr(<<"x">>)]),
                                        LdObj([sameAs |-> LdArr(<< LdStr(<<"h","t","t","p","s",":","/","/","d","o","i",".","o","r","g","/","1","0",".","1","3","7","1","/","j","o","u","r","n","a","l",".","p","o","n","e",".","0","0","0","0","0","0","1">>) >>)]) >>))) >>,
       <<>>),
  \* 9: a hyperlink to the resolver
  Page(<<"w","w","w",".","c","e","l","l",".","c","o","m">>, <<"h","t","t","p","s",":","/","/","w","w","w",".","c","e","l","l",".","c","o","m","/","c","e","l","l","/","f","u","l","l","t","e","x","t","/","S","0","0","9","2">>,
       <<>>,
       << <<"/","h","o","m","e">>, <<"h","t","t","p","s",":","/","/","d","x",".","d","o","i",".","o","r","g","/","1","0",".","1","0","1","6","/","j",".","c","e","l","l",".","2","0","2","0",".","0","1",".","0","0","1">> >>,
       <<>>, <<>>),
  \* 10: visible text in a metadata container, with a trailing full stop
  Page(<<"a","c","a","d","e","m","i","c",".","o","u","p",".","c","o","m">>, <<"h","t","t","p","s",":","/","/","a","c","a","d","e","m","i","c",".","o","u","p",".","c","o","m","/","b","r","a","i","n","/","a","r","t","i","c","l","e","/","1">>,
       <<>>, <<>>, <<>>,
       << <<"B","r","a","i","n",","," ","V","o","l","u","m","e"," ","1">>, <<"D","O","I",":"," ","1","0",".","1","0","9","3","/","b","r","a","i","n","/","a","w","x","1","2","3",".">> >>),
  \* 11: identifier in the path of the address
  Page(<<"p","u","b","s",".","a","c","s",".","o","r","g">>, <<"h","t","t","p","s",":","/","/","p","u","b","s",".","a","c","s",".","o","r","g","/","d","o","i","/","a","b","s","/","1","0",".","1","0","2","1","/","j","a","0","1","0","8","0","a","0","5","4","?","s","r","c","=","r","e","c","s","y","s">>,
       <<>>, <<>>, <<>>, <<>>),
  \* 12: a host that merely contains an ignored name
  Page(<<"w","w","w",".","v","o","x",".","c","o","m">>, <<"h","t","t","p","s",":","/","/","w","w","w",".","v","o","x",".","c","o","m","/","s","c","i","e","n","c","e","/","1">>,
       << Meta("", "citation_doi", "", <<"1","0",".","1","0","3","8","/","n","a","t","u","r","e","1","2","3","7","3">>) >>,
       <<>>, <<>>, <<>>),
  \* 13: a JSON-LD block written inline whose keys carry no identifier and
  \* whose text holds one in the shape the inline-script tier looks for
  Page(<<"e","x","a","m","p","l","e",".","o","r","g">>, <<"h","t","t","p","s",":","/","/","e","x","a","m","p","l","e",".","o","r","g","/","a","r","t","i","c","l","e","/","1","3">>,
       <<>>, <<>>,
       << Script(<<"a","p","p","l","i","c","a","t","i","o","n","/","l","d","+","j","s","o","n">>, Null,
                 <<"{","\"","n","o","t","e","\"",":","\"","d","o","i","=","'","1","0",".","9","9","9","9","/","v","i","a","s","c","r","i","p","t","'","\"","}">>,
                 LdBlock(TRUE, LdObj([note |-> LdStr(<<"d","o","i","=","'","1","0",".","9","9","9","9","/","v","i","a","s","c","r","i","p","t","'">>)]))),
          Inline(<<"v","a","r"," ","a",";">>) >>,
       <<>>) >>

\* how a document may change after its first render: metadata arrives
Evolves == {<<6, 7>>}

\* ------------------------------------------------------------------------
\* Content script: init, the button, the download request
\* ------------------------------------------------------------------------

Fetching == <<"F","e","t","c","h","i","n","g",".",".",".">>
Downloaded == <<"D","o","w","n","l","o","a","d","e","d","!">>
ExtensionError == <<"E","x","t","e","n","s","i","o","n"," ","e","r","r","o","r">>

\* variant of injectButton: without the test for a button in the document
injectButtonAgain(buttons, doi) == Append(buttons, doi)

\* injectButton(doi): nothing when #scihub-ext-btn is in the document
injectButton(buttons, doi) ==
  IF buttons # <<>> THEN buttons ELSE Append(buttons, doi)

\* variant of init: without the test of the host name
initAnyHost(buttons, page) ==
  LET inject(cleaned) == IF Falsy(cleaned) THEN buttons ELSE injectButton(buttons, cleaned)
      clean(doi) == IF Falsy(doi) THEN buttons ELSE inject(cleanDOI(doi))
  IN  clean(detectDOI(page))

\* what detectDOI gives for each of the pages, built once
Detected == [p \in 1..Len(Pages) |-> detectDOI(Pages[p])] @@ <<>>

\* detectDOI(page), computed once for a document of Pages and looked up after
detectDOIOf(page) ==
  LET known == {p \in 1..Len(Pages) : Pages[p] = page}
  IN  IF known = {} THEN detectDOI(page) ELSE Detected[MinOf(known)]

\* init(): the buttons of the document after the call
init(buttons, page) ==
  LET inject(cleaned) == IF Falsy(cleaned) THEN buttons ELSE injectButton(buttons, cleaned)
      clean(doi) == IF Falsy(doi) THEN buttons ELSE inject(cleanDOI(doi))
  IN  IF shouldIgnorePage(page.host) THEN buttons ELSE clean(detectDOIOf(page))

\* the top level of the content script: init() now or on "load", then the
\* retry timer when no button is in the document
Start ==
  /\ cs = "start"
  /\ cs' = "ran"
  /\ IF readyState = "complete"
       THEN /\ btns' = init(btns, Pages[pageId])
            /\ initRuns' = initRuns + 1
            /\ loadListener' = FALSE
       ELSE /\ loadListener' = TRUE
            /\ UNCHANGED <<btns, initRuns>>
  /\ timer' = (btns' = <<>>)
  /\ UNCHANGED <<variant, session, studyVars, pageId, readyState, uiVars, reqs>>

\* the window "load" event; it calls init when the listener is registered
LoadEvent ==
  /\ readyState # "complete"
  /\ readyState' = "complete"
  /\ loadListener' = FALSE
  /\ IF loadListener
       THEN btns' = init(btns, Pages[pageId]) /\ initRuns' = initRuns + 1
       ELSE UNCHANGED <<btns, initRuns>>
  /\ UNCHANGED <<variant, session, studyVars, pageId, cs, timer, uiVars, reqs>>

\* the 2000 ms timer: init once more unless a button is in the document
TimerFires ==
  /\ timer
  /\ timer' = FALSE
  /\ IF btns = <<>>
       THEN btns' = init(btns, Pages[pageId]) /\ initRuns' = initRuns + 1
       ELSE UNCHANGED <<btns, initRuns>>
  /\ UNCHANGED <<variant, session, studyVars, pageId, readyState, cs, loadListener, uiVars, reqs>>

\* the page fills in its metadata while an extraction is still to come
PageMutates ==
  /\ cs = "start" \/ loadListener \/ timer
  /\ \E e \in Evolves : pageId = e[1] /\ pageId' = e[2]
  /\ UNCHANGED <<variant, session, studyVars, readyState, cs, loadListener, timer, btns, initRuns,
                 uiVars, reqs>>

\* downloadPDF(doi), called by the click listener of button b
downloadPDF(b) ==
  /\ btns # <<>>
  /\ loading' = TRUE
  /\ status' = Fetching
  /\ reqs' = Append(reqs, NewRequest(btns[b]))

\* a click on button b: the listener calls downloadPDF(doi) whatever the
\* state of the button
Click ==
  /\ clicks < session.clicks
  /\ \E b \in 1..Len(btns) : downloadPDF(b)
  /\ clicks' = clicks + 1
  /\ UNCHANGED <<variant, session, studyVars, pageVars, clearTimers>>

\* variant of the callback that leaves the class scihub-ext-loading on the button
ResponseReceivedStaysLoading(k) ==
  /\ reqs[k].pc = "responded"
  /\ IF reqs[k].response.success
       THEN /\ status' = Downloaded
            /\ clearTimers' = clearTimers + 1
       ELSE /\ status' = reqs[k].response.error
            /\ UNCHANGED clearTimers
  /\ reqs' = Drop(k)
  /\ UNCHANGED <<variant, session, studyVars, pageVars, loading, clicks>>

\* the sendMessage callback with the response of the worker
ResponseReceived(k) ==
  /\ reqs[k].pc = "responded"
  /\ IF reqs[k].response.success
       THEN /\ status' = Downloaded
            /\ clearTimers' = clearTimers + 1
       ELSE /\ status' = reqs[k].response.error
            /\ UNCHANGED clearTimers
  /\ loading' = FALSE
  /\ reqs' = Drop(k)
  /\ UNCHANGED <<variant, session, studyVars, pageVars, clicks>>

\* the sendMessage callback with chrome.runtime.lastError set: the port was
\* closed before the worker answered
PortClosed(k) ==
  /\ reqs[k].pc # "responded"
  /\ status' = ExtensionError
  /\ loading' = FALSE
  /\ reqs' = Drop(k)
  /\ UNCHANGED <<variant, session, studyVars, pageVars, clicks, clearTimers>>

\* setTimeout(() => setStatus("", false), 3000)
StatusCleared ==
  /\ clearTimers > 0
  /\ clearTimers' = clearTimers - 1
  /\ status' = <<>>
  /\ UNCHANGED <<variant, session, studyVars, pageVars, loading, clicks, reqs>>

\* ------------------------------------------------------------------------
\* Specification
\* ------------------------------------------------------------------------

Init ==
  /\ variant \in Variants
  /\ session \in Sessions
  /\ pageId \in 1..Len(Pages)
  /\ readyState \in {"interactive", "complete"}
  /\ cs = "start"
  /\ loadListener = FALSE
  /\ timer = FALSE
  /\ btns = <<>>
  /\ loading = FALSE
  /\ status = <<>>
  /\ initRuns = 0
  /\ clicks = 0
  /\ clearTimers = 0
  /\ reqs = <<>>
  /\ ident = <<>>
  /\ names = <<>>
  /\ served = <<>>
  /\ found = <<>>

Next ==
  \/ Start
  \/ LoadEvent
  \/ TimerFires
  \/ PageMutates
  \/ Click
  \/ StatusCleared
  \/ \E k \in 1..Len(reqs) : OnMessage(k)
  \/ \E k \in 1..Len(reqs) : MirrorResponds(k)
  \/ \E k \in 1..Len(reqs) : BodyRead(k)
  \/ \E k \in 1..Len(reqs) : FileResponds(k)
  \/ \E k \in 1..Len(reqs) : BlobRead(k)
  \/ \E k \in 1..Len(reqs) : HeaderRead(k)
  \/ \E k \in 1..Len(reqs) : HeadChecked(k)
  \/ \E k \in 1..Len(reqs) : DownloadCallback(k)
  \/ \E k \in 1..Len(reqs) : ResponseReceived(k)
  \/ \E k \in 1..Len(reqs) : PortClosed(k)

Spec == Init /\ [][Next]_vars

\* the same system loaded into a publisher page or into the single-page
\* application: the specification the properties of the worker are checked under
WorkerPages == {1, 6}
InitWorker == Init /\ pageId \in WorkerPages
SpecWorker == InitWorker /\ [][Next]_vars

\* ------------------------------------------------------------------------
\* Properties
\* ------------------------------------------------------------------------

NMirrors == Len(SCIHUB_MIRRORS)
Requests == {reqs[k] : k \in 1..Len(reqs)}

\* C1: within one request the mirrors are attempted in the order of the list,
\* each at most once, and never two at a time: the attempts made so far are
\* mirrors 1, 2, ..., n in that order, and at most the current one is pending
C1_SequentialMirrors ==
  \A r \in Requests :
    /\ Len(r.attempts) <= NMirrors
    /\ \A j \in 1..Len(r.attempts) : r.attempts[j] = j
    /\ Cardinality(r.pending) <= 1
    /\ r.pending \subseteq {r.i}

\* a request that has reached the last mirror after three failures
C1_Witness ==
  \E r \in Requests :
    r.attempts = <<1, 2, 3, 4>> /\ r.pending = {4} /\ r.failed.mirror = 3

\* C2: when every mirror failed, the outcome is a failure whose error is the
\* error of the last mirror attempted
C2_LastErrorReported ==
  \A r \in Requests :
    (r.pc = "responded" /\ ~r.response.success) =>
      /\ r.failed.mirror = r.attempts[Len(r.attempts)]
      /\ r.failed.mirror = NMirrors
      /\ r.response.error = r.failed.msg

\* all four mirrors failed and the outcome carries the fourth error
C2_Witness ==
  \E r \in Requests :
    /\ r.pc = "responded" /\ ~r.response.success
    /\ Len(r.attempts) = NMirrors
    /\ r.response.error = CouldNotFindPdfUrl

\* C3: a failure of findPDFUrl for one mirror (network error, challenge, no
\* reference) is recorded, the challenge as "Cloudflare challenge", and does
\* not end the request: when a later mirror exists it is attempted
C3_MirrorFailureFallsThrough ==
  \A r \in Requests :
    r.failed.stage = "resolve" =>
      /\ IsChallenge(r.failed.html) => r.failed.msg = CloudflareChallenge
      /\ r.failed.msg \in {FailedToFetch, NetworkError, CloudflareChallenge, CouldNotFindPdfUrl}
      /\ r.failed.mirror < NMirrors =>
           /\ Len(r.attempts) > r.failed.mirror
           /\ r.attempts[r.failed.mirror + 1] = r.failed.mirror + 1
      /\ (r.response.sent /\ ~r.response.success) => r.failed.mirror = NMirrors

\* a challenge page from the first mirror, and the second mirror being asked
C3_Witness ==
  \E r \in Requests :
    /\ r.failed.stage = "resolve" /\ r.failed.mirror = 1
    /\ IsChallenge(r.failed.html) /\ r.failed.msg = CloudflareChallenge
    /\ r.pc = "awaitMirror" /\ r.i = 2

\* C4: a success outcome comes with exactly one successful download call (one
\* file written) in the request, a failure outcome with none
C4_OneFilePerSuccess ==
  \A r \in Requests :
    r.pc = "responded" => r.saved = (IF r.response.success THEN 1 ELSE 0)

\* a success after an earlier mirror had failed in the download call
C4_Witness ==
  \E r \in Requests :
    /\ r.pc = "responded" /\ r.response.success /\ r.saved = 1
    /\ r.failed.stage = "save" /\ r.failed.mirror = 1 /\ Len(r.attempts) = 2
C4_WitnessFailure ==
  \E r \in Requests :
    r.pc = "responded" /\ ~r.response.success /\ r.saved = 0 /\ r.failed.stage = "save"

\* C5: a file that was fetched but does not begin with %PDF- is never handed
\* to the download call, and when its content type passed, the failure
\* recorded for it is "Invalid PDF content"
C5_InvalidContentNotSaved ==
  \A r \in Requests :
    /\ (r.pc = "awaitDownload" /\ r.file.kind = "ok") => StartsWith(r.file.body, PdfMagic)
    /\ (/\ r.failed.stage = "save"
        /\ r.failed.file.kind = "ok"
        /\ Includes(ContentTypeOf(r.failed.file), ApplicationPdf)
        /\ ~StartsWith(r.failed.file.body, PdfMagic))
         => r.failed.msg = InvalidPdfContent

\* the regex build has issued the download call for an address that serves
\* an HTML page under the content type application/pdf
C5_Witness ==
  \E r \in Requests :
    /\ variant = "regex" /\ r.pc = "awaitDownload" /\ r.call.url = r.pdfUrl
    /\ r.file.kind = "ok" /\ ~StartsWith(r.file.body, PdfMagic)

\* C6 as stated: once the request is answered and the last failure recorded
\* was one of downloadFromUrl, the answer is a failure with its message
C6_SaveFailureIsOutcome ==
  \A r \in Requests :
    (r.pc = "responded" /\ r.failed.stage = "save") =>
      ~r.response.success /\ r.response.error = r.failed.msg

\* C6: a failure of downloadFromUrl is recorded as the last error and the next
\* mirror is attempted; the answer is a failure with that message when the
\* mirror was the last of the list
C6_SaveFailureContinues ==
  \A r \in Requests :
    r.failed.stage = "save" =>
      /\ r.lastError = r.failed.msg
      /\ r.failed.mirror < NMirrors =>
           /\ Len(r.attempts) > r.failed.mirror
           /\ r.attempts[r.failed.mirror + 1] = r.failed.mirror + 1
      /\ r.failed.mirror = NMirrors =>
           /\ r.pc = "responded"
           /\ ~r.response.success
           /\ r.response.error = r.failed.msg

\* the download call for the last mirror reported a platform error, and the
\* answer carries it verbatim
C6_Witness ==
  \E r \in Requests :
    /\ r.pc = "responded" /\ ~r.response.success
    /\ r.failed.stage = "save" /\ r.failed.mirror = NMirrors
    /\ r.failed.file.kind = "ok" /\ StartsWith(r.failed.file.body, PdfMagic)
    /\ r.response.error \in {d.msg : d \in DownloadResults}

\* C7 as stated: a click while a request is in flight starts no second one,
\* so that at most one download request of the page is in flight
C7_OneRequestInFlight == Len(reqs) <= 1

\* the button was clicked while its first request was in flight: two requests
\* for the same identifier are with the worker, each with its fetch of the
\* first mirror pending, and the button carries the loading class
C7_Witness ==
  /\ Len(reqs) = 2 /\ reqs[1].doi = reqs[2].doi
  /\ reqs[1].pc = "awaitMirror" /\ reqs[2].pc = "awaitMirror"
  /\ reqs[1].i = 1 /\ reqs[2].i = 1
  /\ loading /\ status = Fetching

\* C8: init runs at most twice per page load, the document never holds more
\* than one button, and the timer calls init only when no button is there
C8_InitTwiceOneButton ==
  /\ [](initRuns <= 2 /\ Len(btns) <= 1)
  /\ [][(timer /\ ~timer' /\ initRuns' # initRuns) => btns = <<>>]_vars

\* the timer ran init first and injected the button, then the load event ran
\* init again
C8_Witness ==
  /\ initRuns = 2 /\ Len(btns) = 1 /\ pageId = 1
  /\ ~timer /\ ~loadListener /\ readyState = "complete"

\* the pages a document may have been before it became page p
Versions(p) == {p} \cup {e[1] : e \in {f \in Evolves : f[2] = p}}

\* per page, the identifiers a button may carry: none on an ignored host,
\* else what detectDOI found in the document or in an earlier state of it, cleaned
ButtonsAllowed ==
  [q \in 1..Len(Pages) |->
     IF shouldIgnorePage(Pages[q].host) THEN {}
     ELSE {cleanDOI(Detected[p]) : p \in {v \in Versions(q) : ~Falsy(Detected[v])}}]

\* C9: a button is in the document only if the host is not ignored and
\* detectDOI found an identifier, which the button carries cleaned; a request
\* is sent only from a button
C9_ButtonOnlyWhenFound ==
  /\ btns # <<>> => btns[1] \in ButtonsAllowed[pageId]
  /\ \A r \in Requests : btns # <<>> /\ r.doi = btns[1]

\* an ignored host whose page carries a citation_doi meta tag: init ran
\* twice and the document has no button
C9_Witness ==
  /\ pageId = 4 /\ initRuns = 2 /\ btns = <<>> /\ reqs = <<>>
  /\ shouldIgnorePage(Pages[pageId].host)
  /\ ~Falsy(Detected[pageId])

\* the DOI syntax 10.<4-9 digits>/<non-empty token>
IsDoiSyntax(s) == DoiHeadAt(s, 1) # 0 /\ DoiHeadAt(s, 1) <= Len(s)

\* C10: every identifier a mirror is asked for matches the DOI syntax
C10_OnlyDoiSyntaxFetched ==
  \A r \in Requests : r.attempts # <<>> => IsDoiSyntax(r.doi)

\* a mirror is asked for "10.1234/", what cleanDOI leaves of "10.1234/)"
C10_Witness ==
  \E r \in Requests :
    /\ r.pc = "awaitMirror" /\ ~IsDoiSyntax(r.doi)
    /\ r.doi = cleanDOI(Detected[pageId])
    /\ MirrorUrl(r) = SCIHUB_MIRRORS[r.i] \o <<"/">> \o r.doi

\* ------------------------------------------------------------------
\* The file name as a function of the identifier
\* ------------------------------------------------------------------

\* longest identifier given to the transform, and applications per run
MaxIdLen == 3
MaxNames == 3

\* the characters identifiers are made of: a digit, a letter, the slash, a
\* character the transform removes, and two it keeps
IdChars == {"1", "a", "/", "(", ".", "_"}

\* request.doi as the listener lets it through: any non-empty string
Identifiers == UNION {[1..n -> IdChars] : n \in 1..MaxIdLen}

\* const filename = ...: the transform is applied to the identifier or to a
\* name it produced before
ComputeName ==
  /\ Len(names) < MaxNames
  /\ \E x \in {ident} \cup {names[j].is : j \in 1..Len(names)} :
       names' = Append(names, [of |-> x, is |-> filename(x)])
  /\ UNCHANGED <<variant, session, pageVars, uiVars, reqs, ident, served, found>>

\* the extension installed and nothing sent yet
WorkerIdle ==
  /\ variant \in Variants
  /\ session = Rough
  /\ pageId = 1
  /\ readyState = "complete"
  /\ cs = "start"
  /\ loadListener = FALSE
  /\ timer = FALSE
  /\ btns = <<>>
  /\ loading = FALSE
  /\ status = <<>>
  /\ initRuns = 0
  /\ clicks = 0
  /\ clearTimers = 0
  /\ reqs = <<>>

InitFilename ==
  /\ WorkerIdle
  /\ ident \in Identifiers
  /\ names = <<>>
  /\ served = <<>>
  /\ found = <<>>

NextFilename == ComputeName

SpecFilename == InitFilename /\ [][NextFilename]_vars

\* C11 as stated: the name has every slash replaced by an underscore and no
\* character outside [a-zA-Z0-9._-], equal identifiers get equal names, and
\* applying the transform to a name it produced gives that name again
C11_FilenameIdempotent ==
  \A i \in 1..Len(names) : \A j \in 1..Len(names) :
    /\ names[i].of = names[j].of => names[i].is = names[j].is
    /\ names[j].of = names[i].is => names[j].is = names[i].is

\* C11: the name is the identifier with every slash replaced by an underscore
\* and every character outside [a-zA-Z0-9._-] removed, followed by ".pdf";
\* equal identifiers get equal names; applying the transform to a name it
\* produced changes none of its characters and appends ".pdf" once more
C11_FilenameSanitized ==
  \A i \in 1..Len(names) :
    LET d    == names[i].of
        n    == names[i].is
        stem == SubSeq(n, 1, Len(n) - 4)
    IN /\ Len(n) >= 4
       /\ SubSeq(n, Len(n) - 3, Len(n)) = <<".","p","d","f">>
       /\ \A k \in 1..Len(stem) : stem[k] \in FileNameChar
       /\ stem = SelectSeq([k \in 1..Len(d) |-> IF d[k] = "/" THEN "_" ELSE d[k]],
                           LAMBDA c : c \in FileNameChar)
       /\ \A j \in 1..Len(names) :
            /\ names[j].of = d => names[j].is = n
            /\ names[j].of = n => names[j].is = n \o <<".","p","d","f">>

\* an identifier with a slash and a removed character was named, and so was its name
C11_Witness ==
  /\ ident = <<"1", "/", "(">>
  /\ Len(names) >= 2
  /\ names[1].of = ident
  /\ names[1].is = <<"1","_",".","p","d","f">>
  /\ names[2].of = names[1].is

\* ------------------------------------------------------------------
\* The reference findPDFUrl takes from a body, tier by tier
\* ------------------------------------------------------------------

\* references a body may carry: protocol-relative with a fragment,
\* root-relative, absolute with an entity and a fragment, absolute, relative.
\* `written` is the reference as the markup has it, `value` what getAttribute
\* returns for an attribute written so once DOMParser has parsed the body
\* (character references decoded).
RefSamples == {
  [written |-> <<"/","/","s","c","i",".","b","b","a","n",".","t","o","p","/","p","d","f","/","a",".","p","d","f","#","v","i","e","w","=","F","i","t","H">>,
   value |-> <<"/","/","s","c","i",".","b","b","a","n",".","t","o","p","/","p","d","f","/","a",".","p","d","f","#","v","i","e","w","=","F","i","t","H">>],
  [written |-> <<"/","s","t","o","r","a","g","e","/","1","2","3","/","x",".","p","d","f">>,
   value |-> <<"/","s","t","o","r","a","g","e","/","1","2","3","/","x",".","p","d","f">>],
  [written |-> <<"h","t","t","p","s",":","/","/","c","d","n",".","x","/","a",".","p","d","f","?","k","=","1","&","a","m","p",";","t","=","2","#","p","a","g","e","=","2">>,
   value |-> <<"h","t","t","p","s",":","/","/","c","d","n",".","x","/","a",".","p","d","f","?","k","=","1","&","t","=","2","#","p","a","g","e","=","2">>],
  [written |-> <<"h","t","t","p","s",":","/","/","c","d","n",".","x","/","a",".","p","d","f">>,
   value |-> <<"h","t","t","p","s",":","/","/","c","d","n",".","x","/","a",".","p","d","f">>],
  [written |-> <<"p","d","f","/","a",".","p","d","f">>,
   value |-> <<"p","d","f","/","a",".","p","d","f">>] }

\* the tiers of the scan, by the markup that triggers them
Tiers == {"iframe", "embedType", "embedSrcType", "embed", "object", "button",
          "script", "anyAttr"}

\* a body that carries `ref` in the markup of `tier`: the text and what
\* DOMParser makes of it (the text of a script element is kept as written)
BodyOf(tier, ref) ==
  CASE tier = "iframe" ->
         [html |-> <<"<","i","f","r","a","m","e"," ","s","r","c","=","\"">> \o ref.written \o <<"\"",">","<","/","i","f","r","a","m","e",">">>,
          dom |-> << El("iframe", ref.value, Null, Null, Null, <<>>) >>]
    [] tier = "embedType" ->
         [html |-> <<"<","e","m","b","e","d"," ","t","y","p","e","=","\"","a","p","p","l","i","c","a","t","i","o","n","/","p","d","f","\""," ","s","r","c","=","\"">> \o ref.written \o <<"\"",">">>,
          dom |-> << El("embed", ref.value, ApplicationPdf, Null, Null, <<>>) >>]
    [] tier = "embedSrcType" ->
         [html |-> <<"<","e","m","b","e","d"," ","s","r","c","=","\"">> \o ref.written \o <<"\""," ","t","y","p","e","=","\"","a","p","p","l","i","c","a","t","i","o","n","/","p","d","f","\"",">">>,
          dom |-> << El("embed", ref.value, ApplicationPdf, Null, Null, <<>>) >>]
    [] tier = "embed" ->
         [html |-> <<"<","e","m","b","e","d"," ","s","r","c","=","\"">> \o ref.written \o <<"\"",">">>,
          dom |-> << El("embed", ref.value, Null, Null, Null, <<>>) >>]
    [] tier = "object" ->
         [html |-> <<"<","o","b","j","e","c","t"," ","d","a","t","a","=","\"">> \o ref.written \o <<"\"",">","<","/","o","b","j","e","c","t",">">>,
          dom |-> << El("object", Null, Null, ref.value, Null, <<>>) >>]
    [] tier = "button" ->
         [html |-> <<"<","b","u","t","t","o","n"," ","o","n","c","l","i","c","k","=","\"","l","o","c","a","t","i","o","n",".","h","r","e","f","=","'">> \o ref.written \o <<"'","\"",">","s","a","v","e","<","/","b","u","t","t","o","n",">">>,
          dom |-> << El("button", Null, Null, Null,
                        <<"l","o","c","a","t","i","o","n",".","h","r","e","f","=","'">> \o ref.value \o <<"'">>, <<"s","a","v","e">>) >>]
    [] tier = "script" ->
         [html |-> <<"<","s","c","r","i","p","t",">","v","a","r"," ","p","d","f"," ","="," ","\"">> \o ref.written \o <<"\"",";","<","/","s","c","r","i","p","t",">">>,
          dom |-> << El("script", Null, Null, Null, Null,
                        <<"v","a","r"," ","p","d","f"," ","="," ","\"">> \o ref.written \o <<"\"",";">>) >>]
    [] tier = "anyAttr" ->
         [html |-> <<"<","a"," ","h","r","e","f","=","\"">> \o ref.written \o <<"\"",">","P","D","F","<","/","a",">">>,
          dom |-> << El("a", Null, Null, Null, Null, <<"P","D","F">>) >>]

\* the mirror asked and the body it served
ServedBodies ==
  {[mirror |-> SCIHUB_MIRRORS[i], tier |-> t, ref |-> r, body |-> BodyOf(t, r)] :
     i \in DOMAIN SCIHUB_MIRRORS, t \in Tiers, r \in RefSamples}

\* findPDFUrl(mirror, doi) after its fetch gave the served body as text/html
ResolveBody ==
  /\ served # <<>>
  /\ found = <<>>
  /\ LET res == [kind |-> "ok", msg |-> Null, contentType |-> TextHtml,
                 url |-> served.mirror \o <<"/","1","0",".","1","0","3","8","/","n","a","t","u","r","e","1","2","3","7","3">>,
                 html |-> served.body.html, dom |-> served.body.dom]
     IN  found' = << IF variant = "regex" THEN findPDFUrl(served.mirror, res)
                     ELSE findPDFUrlDom(served.mirror, res) >>
  /\ UNCHANGED <<variant, session, pageVars, uiVars, reqs, ident, names, served>>

InitResolve ==
  /\ WorkerIdle
  /\ ident = <<>>
  /\ names = <<>>
  /\ served \in ServedBodies
  /\ found = <<>>

NextResolve == ResolveBody

SpecResolve == InitResolve /\ [][NextResolve]_vars

\* the reference the spec asks for: entities decoded, fragment dropped, then
\* made absolute by the four rules
C12_Expected(ref, mirror) ==
  LET c == StripFragment(ReplaceAll(ref, <<"&","a","m","p",";">>, <<"&">>))
  IN  IF StartsWith(c, <<"/","/">>) THEN <<"h","t","t","p","s",":">> \o c
      ELSE IF StartsWith(c, <<"/">>) THEN mirror \o c
      ELSE IF StartsWith(c, <<"h","t","t","p",":","/","/">>) \/ StartsWith(c, <<"h","t","t","p","s",":","/","/">>) THEN c
      ELSE mirror \o <<"/">> \o c

\* C12: whichever tier matched, the reference findPDFUrl returns from a body
\* has no fragment and no &amp; entity left and is the absolute form of the
\* reference the body carries
C12_EveryReferenceNormalized ==
  (found # <<>> /\ ~found[1].threw /\ found[1].val # Null) =>
    /\ \A k \in 1..Len(found[1].val) : found[1].val[k] # "#"
    /\ ~Includes(found[1].val, <<"&","a","m","p",";">>)
    /\ found[1].val = C12_Expected(served.ref.written, served.mirror)

\* the same property for the tiers that read an attribute
C12_AttributeTiersNormalized ==
  (found # <<>> /\ served.tier # "script") =>
    /\ ~found[1].threw
    /\ found[1].val \in {Null, C12_Expected(served.ref.written, served.mirror)}
    /\ (variant = "regex" /\ served.tier \notin {"button", "anyAttr"}) => found[1].val # Null

\* the inline script tier returned a reference with its entity and fragment
C12_Witness ==
  /\ found # <<>>
  /\ served.tier = "script"
  /\ found[1].val = <<"h","t","t","p","s",":","/","/","c","d","n",".","x","/","a",".","p","d","f","?","k","=","1","&","a","m","p",";","t","=","2","#","p","a","g","e","=","2">>

\* ------------------------------------------------------------------
\* Every accepted request is answered
\* ------------------------------------------------------------------

\* one step of the worker or of the callback of sendMessage for some request
RequestStep ==
  \E k \in 1..Len(reqs) :
    \/ OnMessage(k)
    \/ MirrorResponds(k)
    \/ BodyRead(k)
    \/ FileResponds(k)
    \/ BlobRead(k)
    \/ HeaderRead(k)
    \/ HeadChecked(k)
    \/ DownloadCallback(k)
    \/ ResponseReceived(k)

\* the proviso that every fetch and every download call of a request
\* completes: the runtime delivers the message, each awaited call settles and
\* its continuation runs, and the callback of sendMessage is run. For one
\* request one of these steps is enabled at a time, by its position; with
\* several in flight some step is enabled for as long as one is unanswered,
\* and a request takes a bounded number of steps.
CallsComplete == WF_vars(RequestStep)

\* the extension loaded into the single-page application while the document
\* is still loading: every handler of the content script gets to run
InitSpa == Init /\ pageId = 6 /\ readyState = "interactive"

SpecWorkerFair == InitSpa /\ [][Next]_vars /\ CallsComplete

\* C13: a request the listener accepted is answered once, by { success: true }
\* or by { success: false, error: <non-empty string> }; the callback of
\* sendMessage runs for that request with that answer, or with a runtime error
\* when the port closed before it, shows its outcome and takes the loading
\* state off the button; if every fetch and download call completes, every
\* request sent gets there
C13_AcceptedGetsOneResponse ==
  /\ [](\A r \in Requests :
          /\ Accepts(r)
          /\ r.response.sent <=> r.pc = "responded"
          /\ r.response.sent =>
               \/ r.response.success /\ r.response.error = Null
               \/ ~r.response.success /\ r.response.error # Null /\ Len(r.response.error) > 0)
  /\ [][/\ \A k \in 1..Len(reqs) :
            (reqs[k].response.sent /\ Len(reqs') >= Len(reqs)) => reqs'[k] = reqs[k]
       /\ Len(reqs') < Len(reqs) =>
            \E k \in 1..Len(reqs) :
              /\ reqs' = Drop(k)
              /\ ~loading'
              /\ \/ reqs[k].response.sent /\ reqs[k].response.success /\ status' = Downloaded
                 \/ reqs[k].response.sent /\ ~reqs[k].response.success
                      /\ status' = reqs[k].response.error
                 \/ ~reqs[k].response.sent /\ status' = ExtensionError]_vars
  /\ (reqs # <<>>) ~> (reqs = <<>> /\ ~loading)

\* a failure answer was received after all four mirrors served no reference,
\* and the button no longer carries the loading class
C13_Witness ==
  /\ reqs = <<>> /\ clicks = 1 /\ ~loading
  /\ status = CouldNotFindPdfUrl

====
